---- MODULE Spec2Model ----
(***************************************************************************)
(* Model of the hybrid RAG front-end: HybridRAG.query() with its cache     *)
(* check, routing, pipeline execution, cache write and metrics, and the    *)
(* IntelligentRouter / QueryClassifier decision functions.                 *)
(*                                                                         *)
(* Confidences are fixed-point numbers in units of 1/10000 (0.7 = 7000).   *)
(* Costs are in units of 0.001 USD.                                        *)
(***************************************************************************)
EXTENDS Integers, Sequences, FiniteSets, TLC

\* ------------------------------------------------------------------ bounds
\* number of calls of query() in one behaviour
MaxQueries == 2
\* largest time (seconds) a request spends in its pipelines
MaxElapsed == 2
\* resolution of the confidence inputs handed to the router directly
ConfGrid == 20
\* largest max_size an L1Cache is built with
L1MaxSize == 3
\* how far the clock of the cache tiers runs
MaxClock == 2

\* ------------------------------------------------------------------- enums
\* Python None
NONE == "none"

\* models.RoutingStrategy
CLASSIC_RAG == "classic_rag"
AGENTIC_RAG == "agentic_rag"
HYBRID == "hybrid"
CACHE == "cache"
RoutingStrategy == {CLASSIC_RAG, AGENTIC_RAG, HYBRID, CACHE}

\* models.QueryComplexity
SIMPLE == "simple"
MODERATE == "moderate"
COMPLEX == "complex"
MULTI_HOP == "multi_hop"
QueryComplexity == {SIMPLE, MODERATE, COMPLEX, MULTI_HOP}

\* ----------------------------------------------------------------- queries
\* The query texts of the model.  A text is what the cache is keyed by; the
\* classifier and the analyzer see it through the features below.
Queries == {"what", "mid", "mid_what", "analyse", "long"}

\* Texts handed to the analyzer and the router directly: the empty query and
\* one of more than 50 words, neither matching a pattern of the classifier
EdgeQueries == {"", "huge"}

\* Texts handed to the classifier directly.  The name of a text tells its
\* features: which kind of pattern it matches, how many multi-hop keywords,
\* question marks or numbered items it holds, or (wN) its number of words.
ClassifierQueries ==
    {"what_analyse", "forecast", "forecast_and", "analyse_3",
     "w9", "w10", "w29", "w30", "w49", "w50",
     "two_questions", "what_two_questions", "analyse_two_questions",
     "steps", "steps_long", "what_steps", "questions_steps"}

\* len(query.split())
word_count(q) ==
    CASE q = "what" -> 3
      [] q = "mid" -> 20
      [] q = "mid_what" -> 20
      [] q = "analyse" -> 9
      [] q = "long" -> 35
      [] q = "" -> 0
      [] q = "huge" -> 60
      [] q = "what_analyse" -> 8
      [] q = "forecast" -> 5
      [] q = "forecast_and" -> 7
      [] q = "analyse_3" -> 14
      [] q = "w9" -> 9
      [] q = "w10" -> 10
      [] q = "w29" -> 29
      [] q = "w30" -> 30
      [] q = "w49" -> 49
      [] q = "w50" -> 50
      [] q = "two_questions" -> 12
      [] q = "what_two_questions" -> 6
      [] q = "analyse_two_questions" -> 8
      [] q = "steps" -> 6
      [] q = "steps_long" -> 20
      [] q = "what_steps" -> 7
      [] q = "questions_steps" -> 5

\* some pattern of QueryClassifier.simple_patterns matches the text
simple_pattern(q) ==
    q \in {"what", "mid_what", "what_analyse", "what_two_questions", "what_steps"}

\* some pattern of QueryClassifier.complex_patterns matches the text
complex_pattern(q) ==
    q \in {"analyse", "what_analyse", "forecast", "forecast_and", "analyse_3",
           "analyse_two_questions"}

\* number of QueryClassifier.multi_hop_keywords present in the text
multi_hop_count(q) ==
    IF q \in {"analyse", "what_analyse"} THEN 2
    ELSE IF q = "analyse_3" THEN 3
    ELSE IF q \in {"forecast_and", "analyse_two_questions"} THEN 1
    ELSE 0

\* query.count('?')
question_marks(q) ==
    IF q \in {"two_questions", "what_two_questions", "analyse_two_questions",
              "questions_steps"} THEN 2
    ELSE IF q \in {"what", "mid_what"} THEN 1
    ELSE 0

\* re.search(r'\d+\.', query)
has_enumeration(q) == q \in {"steps", "steps_long", "what_steps", "questions_steps"}

\* ------------------------------------------------------------ the analyzer
\* HybridRAG._analyze_query: complexity_score = min(1.0, words / 50.0) in
\* units of 1/10000
complexity_score(q) ==
    LET s == (word_count(q) * 10000) \div 50
    IN IF s > 10000 THEN 10000 ELSE s

\* _analyze_query that labels only a text with words in it simple
analyze_query_needs_words(q, query_id) ==
    LET s == complexity_score(q)
    IN [query_id |-> query_id,
        original_query |-> q,
        complexity |-> IF 0 < s /\ s < 3000 THEN SIMPLE
                       ELSE IF s < 6000 THEN MODERATE
                       ELSE IF s < 8000 THEN COMPLEX
                       ELSE MULTI_HOP,
        complexity_score |-> s]

\* HybridRAG._analyze_query
analyze_query(q, query_id) ==
    LET s == complexity_score(q)
    IN [query_id |-> query_id,
        original_query |-> q,
        complexity |-> IF s < 3000 THEN SIMPLE
                       ELSE IF s < 6000 THEN MODERATE
                       ELSE IF s < 8000 THEN COMPLEX
                       ELSE MULTI_HOP,
        complexity_score |-> s]

\* ---------------------------------------------------------- the classifier
\* _heuristic_classify that tries the complex patterns before the simple ones
heuristic_classify_complex_first(q) ==
    IF complex_pattern(q)
    THEN [complexity |-> IF multi_hop_count(q) >= 2 THEN MULTI_HOP ELSE COMPLEX,
          confidence |-> 7500]
    ELSE IF simple_pattern(q)
    THEN [complexity |-> SIMPLE, confidence |-> 8500]
    ELSE
      LET n == word_count(q)
          c0 == IF n < 10 THEN SIMPLE
                ELSE IF n < 30 THEN MODERATE
                ELSE IF n < 50 THEN COMPLEX
                ELSE MULTI_HOP
          f0 == IF n < 10 THEN 7000
                ELSE IF n < 30 THEN 6000
                ELSE IF n < 50 THEN 6000
                ELSE 7000
          c1 == IF question_marks(q) > 1 THEN MULTI_HOP ELSE c0
          f1 == IF question_marks(q) > 1 THEN (f0 * 9) \div 10 ELSE f0
          c2 == IF has_enumeration(q) /\ c1 = SIMPLE THEN MODERATE ELSE c1
          f2 == IF has_enumeration(q) THEN (f1 * 95) \div 100 ELSE f1
      IN [complexity |-> c2, confidence |-> f2]

\* _heuristic_classify whose word-count ranges include their upper ends
heuristic_classify_inclusive_ranges(q) ==
    IF simple_pattern(q)
    THEN [complexity |-> SIMPLE, confidence |-> 8500]
    ELSE IF complex_pattern(q)
    THEN [complexity |-> IF multi_hop_count(q) >= 2 THEN MULTI_HOP ELSE COMPLEX,
          confidence |-> 7500]
    ELSE
      LET n == word_count(q)
          c0 == IF n <= 10 THEN SIMPLE
                ELSE IF n <= 30 THEN MODERATE
                ELSE IF n <= 50 THEN COMPLEX
                ELSE MULTI_HOP
          f0 == IF n <= 10 THEN 7000
                ELSE IF n <= 30 THEN 6000
                ELSE IF n <= 50 THEN 6000
                ELSE 7000
          c1 == IF question_marks(q) > 1 THEN MULTI_HOP ELSE c0
          f1 == IF question_marks(q) > 1 THEN (f0 * 9) \div 10 ELSE f0
          c2 == IF has_enumeration(q) /\ c1 = SIMPLE THEN MODERATE ELSE c1
          f2 == IF has_enumeration(q) THEN (f1 * 95) \div 100 ELSE f1
      IN [complexity |-> c2, confidence |-> f2]

\* QueryClassifier._heuristic_classify, on the features of the text
heuristic_classify(q) ==
    IF simple_pattern(q)
    THEN [complexity |-> SIMPLE, confidence |-> 8500]
    ELSE IF complex_pattern(q)
    THEN [complexity |-> IF multi_hop_count(q) >= 2 THEN MULTI_HOP ELSE COMPLEX,
          confidence |-> 7500]
    ELSE
      LET n == word_count(q)
          c0 == IF n < 10 THEN SIMPLE
                ELSE IF n < 30 THEN MODERATE
                ELSE IF n < 50 THEN COMPLEX
                ELSE MULTI_HOP
          f0 == IF n < 10 THEN 7000
                ELSE IF n < 30 THEN 6000
                ELSE IF n < 50 THEN 6000
                ELSE 7000
          c1 == IF question_marks(q) > 1 THEN MULTI_HOP ELSE c0
          f1 == IF question_marks(q) > 1 THEN (f0 * 9) \div 10 ELSE f0
          c2 == IF has_enumeration(q) /\ c1 = SIMPLE THEN MODERATE ELSE c1
          f2 == IF has_enumeration(q) THEN (f1 * 95) \div 100 ELSE f1
      IN [complexity |-> c2, confidence |-> f2]

\* QueryClassifier.classify: self.model is None, so the heuristics decide
classify(query_metadata) == heuristic_classify(query_metadata.original_query)

\* -------------------------------------------------------------- the router
\* _determine_strategy with the moderate threshold taken as >= 0.7
determine_strategy_inclusive(complexity, confidence) ==
    IF complexity = SIMPLE THEN CLASSIC_RAG
    ELSE IF complexity = COMPLEX \/ complexity = MULTI_HOP THEN AGENTIC_RAG
    ELSE IF complexity = MODERATE
         THEN IF confidence >= 7000 THEN CLASSIC_RAG ELSE HYBRID
    ELSE HYBRID

\* IntelligentRouter._determine_strategy
determine_strategy(complexity, confidence) ==
    IF complexity = SIMPLE THEN CLASSIC_RAG
    ELSE IF complexity = COMPLEX \/ complexity = MULTI_HOP THEN AGENTIC_RAG
    ELSE IF complexity = MODERATE
         THEN IF confidence > 7000 THEN CLASSIC_RAG ELSE HYBRID
    ELSE HYBRID

\* _get_fallback_strategies with the hybrid chain in the other order
get_fallback_strategies_hybrid_swapped(primary_strategy) ==
    IF primary_strategy = AGENTIC_RAG THEN <<HYBRID, CLASSIC_RAG>>
    ELSE IF primary_strategy = HYBRID THEN <<AGENTIC_RAG, CLASSIC_RAG>>
    ELSE IF primary_strategy = CLASSIC_RAG THEN <<HYBRID, AGENTIC_RAG>>
    ELSE <<CLASSIC_RAG>>

\* _get_fallback_strategies with the agentic chain cheapest first
get_fallback_strategies_agentic_cheapest_first(primary_strategy) ==
    IF primary_strategy = AGENTIC_RAG THEN <<CLASSIC_RAG, HYBRID>>
    ELSE IF primary_strategy = HYBRID THEN <<CLASSIC_RAG, AGENTIC_RAG>>
    ELSE IF primary_strategy = CLASSIC_RAG THEN <<HYBRID, AGENTIC_RAG>>
    ELSE <<CLASSIC_RAG>>

\* IntelligentRouter._get_fallback_strategies
get_fallback_strategies(primary_strategy) ==
    IF primary_strategy = AGENTIC_RAG THEN <<HYBRID, CLASSIC_RAG>>
    ELSE IF primary_strategy = HYBRID THEN <<CLASSIC_RAG, AGENTIC_RAG>>
    ELSE IF primary_strategy = CLASSIC_RAG THEN <<HYBRID, AGENTIC_RAG>>
    ELSE <<CLASSIC_RAG>>

\* _check_resource_availability moving to the first fallback of the strategy
check_resource_availability_walks(strategy) ==
    Head(get_fallback_strategies(strategy))

\* IntelligentRouter._estimate_cost: base_costs, in units of 0.001 USD
base_cost(strategy) ==
    CASE strategy = CLASSIC_RAG -> 1
      [] strategy = AGENTIC_RAG -> 10
      [] strategy = HYBRID -> 5
      [] strategy = CACHE -> 0

\* IntelligentRouter._estimate_time: base_times, in ms
base_time(strategy) ==
    CASE strategy = CLASSIC_RAG -> 200
      [] strategy = AGENTIC_RAG -> 2000
      [] strategy = HYBRID -> 1500
      [] strategy = CACHE -> 10

\* IntelligentRouter._estimate_time: complexity_multiplier, in halves
\* (0.5, 1.0, 2.0, 3.0)
complexity_multiplier(complexity) ==
    CASE complexity = SIMPLE -> 1
      [] complexity = MODERATE -> 2
      [] complexity = COMPLEX -> 4
      [] complexity = MULTI_HOP -> 6

\* IntelligentRouter._estimate_time: int(base_time * multiplier), in ms
estimate_time(strategy, complexity) ==
    (base_time(strategy) * complexity_multiplier(complexity)) \div 2

\* IntelligentRouter._estimate_cost: base_cost * (1.0 + query_length / 1000.0),
\* in units of 0.000001 USD; query_length is len(original_query)
estimate_cost(strategy, query_length) ==
    base_cost(strategy) * (1000 + query_length)

\* IntelligentRouter._check_resource_availability (a stub: returns its input)
check_resource_availability(strategy) == strategy

\* IntelligentRouter.route
route(query_metadata) ==
    LET classification == classify(query_metadata)
        strategy == determine_strategy(query_metadata.complexity,
                                       classification.confidence)
        fallback_strategies == get_fallback_strategies(strategy)
    IN [strategy |-> check_resource_availability(strategy),
        confidence |-> classification.confidence,
        fallback_strategies |-> fallback_strategies,
        cache_hit |-> FALSE]

\* HybridRAG._route_query, the force_strategy branch
forced_decision(force_strategy) ==
    [strategy |-> force_strategy,
     confidence |-> 10000,
     fallback_strategies |-> <<>>,
     cache_hit |-> FALSE]

\* _route_query that asks the router even when a strategy is forced
route_query_ignores_force(query_metadata, force_strategy) ==
    route(query_metadata)

\* HybridRAG._route_query
route_query(query_metadata, force_strategy) ==
    IF force_strategy # NONE
    THEN forced_decision(force_strategy)
    ELSE route(query_metadata)

\* ------------------------------------------------------------ query results
\* The QueryResult of HybridRAG._execute_classic_rag; `confidence` is
\* result.get("confidence", 0.8) of the classic pipeline's answer
classic_result(query_metadata, confidence) ==
    [query_id |-> query_metadata.query_id,
     answer |-> "classic",
     strategy_used |-> CLASSIC_RAG,
     confidence_score |-> confidence,
     agents_used |-> <<>>,
     execution_path |-> <<"classic_rag">>,
     cached |-> FALSE,
     fallback_used |-> FALSE,
     error |-> NONE]

\* The QueryResult of HybridRAG._execute_agentic_rag; `confidence` is
\* result.get("confidence", 0.9) of the orchestrator's answer, and <<"agent">>
\* and <<"orchestrate">> stand for the agents and the path it reports
agentic_result(query_metadata, confidence) ==
    [query_id |-> query_metadata.query_id,
     answer |-> "agentic",
     strategy_used |-> AGENTIC_RAG,
     confidence_score |-> confidence,
     agents_used |-> <<"agent">>,
     execution_path |-> <<"orchestrate">>,
     cached |-> FALSE,
     fallback_used |-> FALSE,
     error |-> NONE]

\* _execute_hybrid that compares with >=, so that a tie goes to agentic
hybrid_result_ties_to_agentic(classic_res, agentic_res) ==
    LET final_result == IF agentic_res.confidence_score >= classic_res.confidence_score
                        THEN agentic_res
                        ELSE classic_res
    IN [final_result EXCEPT !.strategy_used = HYBRID]

\* _execute_hybrid that returns the selected result under its own strategy
hybrid_result_keeps_strategy(classic_res, agentic_res) ==
    IF agentic_res.confidence_score > classic_res.confidence_score
    THEN agentic_res
    ELSE classic_res

\* HybridRAG._execute_hybrid, after both tasks have returned
hybrid_result(classic_res, agentic_res) ==
    LET final_result == IF agentic_res.confidence_score > classic_res.confidence_score
                        THEN agentic_res
                        ELSE classic_res
    IN [final_result EXCEPT !.strategy_used = HYBRID]

\* _create_error_result that drops the error text
create_error_result_without_error(query_id, error) ==
    [query_id |-> query_id,
     answer |-> "sorry",
     strategy_used |-> CLASSIC_RAG,
     confidence_score |-> 0,
     agents_used |-> <<>>,
     execution_path |-> <<"error">>,
     cached |-> FALSE,
     fallback_used |-> TRUE,
     error |-> NONE]

\* HybridRAG._create_error_result
create_error_result(query_id, error) ==
    [query_id |-> query_id,
     answer |-> "sorry",
     strategy_used |-> CLASSIC_RAG,
     confidence_score |-> 0,
     agents_used |-> <<>>,
     execution_path |-> <<"error">>,
     cached |-> FALSE,
     fallback_used |-> TRUE,
     error |-> error]

\* _check_cache that returns the stored result without marking it
cached_result_unmarked(cached) == cached

\* HybridRAG._check_cache: QueryResult(**cached) with cached set to True
cached_result(cached) == [cached EXCEPT !.cached = TRUE]

\* ---------------------------------------------------------------- the cache
\* MultiLevelCache.get(key): the value stored under exactly this key, if any
CacheHit(c, key) == key \in DOMAIN c
CacheGet(c, key) == c[key]

\* MultiLevelCache.set(key, value): insert or replace the entry of the key
CacheSet(c, key, value) ==
    [k \in DOMAIN c \cup {key} |-> IF k = key THEN value ELSE c[k]]

\* ------------------------------------------------------------------- state
VARIABLES
    cache_enabled,       \* HybridRAG.cache_enabled
    monitoring_enabled,  \* HybridRAG.monitoring_enabled
    timeout_seconds,     \* settings.timeout_seconds
    cache,               \* contents of HybridRAG.cache: key -> result.dict()
    metrics,             \* number of MetricsCollector.record calls
    nextId,              \* the next uuid4 (query ids are fresh)
    pc,                  \* position of the request in query()
    req,                 \* the call: text, force_strategy, query_id, metadata
    decision,            \* routing_decision of the request
    tasks,               \* classic_task / agentic_task of _execute_hybrid
    attempted,           \* strategies handed to _execute_query, in order
    raised,              \* exceptions the pipelines raised in the request
    elapsed,             \* seconds the request has spent in its pipelines
    result,              \* the QueryResult query() returned
    call,                \* a direct call of a router function and its value
    l1_entries,          \* L1Cache: the entries, least recently used first
    l1_max_size,         \* L1Cache.max_size
    l1_ttl,              \* L1Cache.ttl
    now,                 \* the clock the cache tiers read
    l1_call,             \* the last L1Cache operation and what it returned
    l1_sets,             \* history: the latest set() of every key
    l1_uses,             \* history: the keys used since the last clear(), in
                         \* the order of their last use
    l2_entries,          \* L2Cache: query -> result, embedding, created_at
    l2_ttl,              \* L2Cache.ttl
    l2_call,             \* the last L2Cache operation and what it returned
    l3_paths,            \* L3Cache: query -> the stored path
    l3_call,             \* the last L3Cache operation and what it returned
    m_call,              \* the last CacheManager write or invalidation, with
                         \* the tiers as it found them
    a_pc,                \* where complex_analysis() is
    task_i,              \* complex_analysis: i of the loop over the subtasks
    results,             \* complex_analysis: results, in insertion order
    contexts,            \* history: the context handed to each agent.execute
    final_result         \* what complex_analysis returned

\* the state of the cache tiers when they are used on their own
l1_tier == <<l1_entries, l1_max_size, l1_ttl, l1_call, l1_sets, l1_uses>>
l2_tier == <<l2_entries, l2_ttl, l2_call>>
l3_tier == <<l3_paths, l3_call>>
tiers == <<l1_tier, l2_tier, l3_tier, now, m_call>>

\* the state of the HybridRAG front-end and of the direct calls
front_end == <<cache_enabled, monitoring_enabled, timeout_seconds, cache, metrics,
               nextId, pc, req, decision, tasks, attempted, raised, elapsed,
               result, call>>

\* the state of complex_analysis() of the agentic example
orchestration == <<a_pc, task_i, results, contexts, final_result>>

vars == <<front_end, tiers, orchestration>>

config == <<cache_enabled, monitoring_enabled, timeout_seconds>>

NoRequest == [query |-> NONE, force_strategy |-> NONE, query_id |-> 0,
              metadata |-> [query_id |-> 0, original_query |-> NONE,
                            complexity |-> NONE, complexity_score |-> 0]]
NoDecision == [strategy |-> NONE, confidence |-> 0,
               fallback_strategies |-> <<>>, cache_hit |-> FALSE]
NoResult == [query_id |-> 0, answer |-> NONE, strategy_used |-> NONE,
             confidence_score |-> 0, agents_used |-> <<>>, execution_path |-> <<>>,
             cached |-> FALSE, fallback_used |-> FALSE, error |-> NONE]
NoTasks == [classic_task |-> NoResult, agentic_task |-> NoResult]
NoCall == [op |-> NONE]

\* What the pipelines can answer: a confidence, or an exception.
\* 8000 and 9000 are the defaults of result.get("confidence", ...).
ClassicConfidences == {8000, 9000}
AgenticConfidences == {9000}

\* The configured settings.timeout_seconds (seconds): no deadline at all,
\* and a deadline the pipelines can meet or miss
TimeoutSettings == {0, 1}

InitHybridRAG ==
    /\ cache_enabled \in BOOLEAN
    /\ monitoring_enabled \in BOOLEAN
    /\ timeout_seconds \in TimeoutSettings
    /\ cache = << >>
    /\ metrics = 0
    /\ nextId = 1
    /\ pc = "idle"
    /\ req = NoRequest
    /\ decision = NoDecision
    /\ tasks = NoTasks
    /\ attempted = <<>>
    /\ raised = <<>>
    /\ elapsed = 0
    /\ result = NoResult
    /\ call = NoCall

\* what the L1 tier can be asked for: one question in three spellings, the
\* second differing from the first in case, the third in whitespace and
\* punctuation
L1Keys == {"What is Python?", "What is python?", "What  is Python"}
L1Values == {"Result", "Other result"}
\* L1Cache(ttl=...), in ticks of the clock
L1TtlSettings == {1}

NoL1Call == [op |-> NONE, key |-> NONE, value |-> NONE, at |-> 0, hit |-> FALSE]

\* L1Cache(max_size, ttl, storage='memory'): an empty tier
InitL1Cache(max_sizes, ttls) ==
    /\ l1_entries = <<>>
    /\ l1_max_size \in max_sizes
    /\ l1_ttl \in ttls
    /\ now = 0
    /\ l1_call = NoL1Call
    /\ l1_sets = << >>
    /\ l1_uses = <<>>

NoL2Call == [op |-> NONE, query |-> NONE, hit |-> FALSE, found |-> NONE]

\* L2Cache(similarity_threshold, max_size, ttl, embedding_model): an empty tier
InitL2Cache(ttls) ==
    /\ l2_entries = << >>
    /\ l2_ttl \in ttls
    /\ l2_call = NoL2Call

NoL3Call == [op |-> NONE, query |-> NONE, path |-> <<>>, is_better |-> FALSE,
             before |-> <<>>, hit |-> FALSE]

\* L3Cache(max_paths, ttl): an empty tier
InitL3Cache ==
    /\ l3_paths = << >>
    /\ l3_call = NoL3Call

NoTiers == [l1 |-> <<>>, l2 |-> << >>, l3 |-> << >>]
NoManagerCall == [op |-> NONE, pattern |-> <<>>, before |-> NoTiers]

\* CacheManager(enable_l1=True, enable_l2=True, enable_l3=True)
InitCacheManager == m_call = NoManagerCall

\* no final result yet; a confidence is the fraction sum / count
NoFinalResult ==
    [subtasks_completed |-> 0, confidence |-> [sum |-> 0, count |-> 1],
     total_iterations |-> 0]

\* AgenticRAGExample before complex_analysis is called
InitOrchestrator ==
    /\ a_pc = "idle"
    /\ task_i = 0
    /\ results = <<>>
    /\ contexts = <<>>
    /\ final_result = NoFinalResult

Init ==
    /\ InitOrchestrator
    /\ InitHybridRAG
    /\ InitL1Cache({L1MaxSize}, L1TtlSettings)
    /\ InitL2Cache(L1TtlSettings)
    /\ InitL3Cache
    /\ InitCacheManager

\* ----------------------------------------------------------------- query()
\* query() that returns the pipeline's result without awaiting the cache write
AfterExecute_without_save ==
    IF monitoring_enabled THEN "metrics" ELSE "done"

\* query() that writes to the cache only what an unforced request produced
AfterExecute_forced_unsaved ==
    IF cache_enabled /\ req.force_strategy = NONE THEN "save"
    ELSE IF monitoring_enabled THEN "metrics"
    ELSE "done"

\* where query() goes once _execute_query has returned a result
AfterExecute ==
    IF cache_enabled THEN "save"
    ELSE IF monitoring_enabled THEN "metrics"
    ELSE "done"

\* query(): start_time, query_id = uuid4(), _analyze_query; then the cache
\* is consulted only if it is enabled and no strategy is forced
Query(q, force_strategy) ==
    /\ pc \in {"idle", "done"}
    /\ nextId <= MaxQueries
    /\ req' = [query |-> q, force_strategy |-> force_strategy,
               query_id |-> nextId, metadata |-> analyze_query(q, nextId)]
    /\ nextId' = nextId + 1
    /\ pc' = IF cache_enabled /\ force_strategy = NONE THEN "check_cache"
             ELSE "route"
    /\ decision' = NoDecision
    /\ tasks' = NoTasks
    /\ attempted' = <<>>
    /\ raised' = <<>>
    /\ elapsed' = 0
    /\ result' = NoResult
    /\ UNCHANGED <<orchestration, tiers, config, cache, metrics, call>>

\* HybridRAG.simple_query: query() with force_strategy = classic_rag
simple_query(q) == Query(q, CLASSIC_RAG)

\* HybridRAG.complex_query: query() with force_strategy = agentic_rag
complex_query(q) == Query(q, AGENTIC_RAG)

\* warm_cache(queries), one query of the list: a lookup that runs the full
\* pipeline on a miss and stores its result, that is an unforced query()
\* of a front-end whose cache is enabled
WarmCache(q) ==
    /\ cache_enabled
    /\ Query(q, NONE)

\* query() that records metrics for a cache hit before returning it
after_hit_collects_metrics == IF monitoring_enabled THEN "metrics" ELSE "done"

\* where query() goes on a cache hit: `return cached_result`
after_hit == "done"

\* query(): cached_result = await self._check_cache(query_metadata); a hit
\* is returned at once
CheckCache ==
    /\ pc = "check_cache"
    /\ IF CacheHit(cache, req.metadata.original_query)
       THEN /\ result' = cached_result(CacheGet(cache, req.metadata.original_query))
            /\ pc' = after_hit
       ELSE /\ result' = result
            /\ pc' = "route"
    /\ UNCHANGED <<orchestration, tiers, config, raised, cache, metrics, nextId, req, decision, tasks,
                   attempted, elapsed, call>>

\* query(): routing_decision = await self._route_query(...)
RouteQuery ==
    /\ pc = "route"
    /\ decision' = route_query(req.metadata, req.force_strategy)
    /\ pc' = "execute"
    /\ UNCHANGED <<orchestration, tiers, config, raised, cache, metrics, nextId, req, tasks, attempted,
                   elapsed, result, call>>

\* the except branch of query(): the exception becomes an error result
Raise(error) ==
    /\ result' = create_error_result(req.query_id, error)
    /\ pc' = "done"

\* _check_cache: self.cache.get raises; nothing between it and the except
\* branch of query() catches the exception
CheckCacheFails ==
    /\ pc = "check_cache"
    /\ Raise("cache_error")
    /\ UNCHANGED <<orchestration, tiers, config, raised, cache, metrics, nextId, req, decision, tasks,
                   attempted, elapsed, call>>

\* time passes while the request waits for its pipelines
Tick ==
    /\ pc \in {"execute", "gather"}
    /\ elapsed < MaxElapsed
    /\ elapsed' = elapsed + 1
    /\ UNCHANGED <<orchestration, tiers, config, raised, cache, metrics, nextId, pc, req, decision, tasks,
                   attempted, result, call>>

\* _execute_query, strategy classic: the pipeline answers
ExecuteClassic(confidence) ==
    /\ pc = "execute"
    /\ decision.strategy = CLASSIC_RAG
    /\ attempted' = Append(attempted, CLASSIC_RAG)
    /\ result' = classic_result(req.metadata, confidence)
    /\ pc' = AfterExecute
    /\ UNCHANGED <<orchestration, tiers, config, raised, cache, metrics, nextId, req, decision, tasks,
                   elapsed, call>>

\* _execute_query, strategy classic: the pipeline raises
ExecuteClassicFails ==
    /\ pc = "execute"
    /\ decision.strategy = CLASSIC_RAG
    /\ attempted' = Append(attempted, CLASSIC_RAG)
    /\ raised' = Append(raised, "classic_error")
    /\ Raise("classic_error")
    /\ UNCHANGED <<orchestration, tiers, config, cache, metrics, nextId, req, decision, tasks,
                   elapsed, call>>

\* _execute_query, strategy agentic: the orchestrator answers
ExecuteAgentic(confidence) ==
    /\ pc = "execute"
    /\ decision.strategy = AGENTIC_RAG
    /\ attempted' = Append(attempted, AGENTIC_RAG)
    /\ result' = agentic_result(req.metadata, confidence)
    /\ pc' = AfterExecute
    /\ UNCHANGED <<orchestration, tiers, config, raised, cache, metrics, nextId, req, decision, tasks,
                   elapsed, call>>

\* _execute_query, strategy agentic: the orchestrator raises
ExecuteAgenticFails ==
    /\ pc = "execute"
    /\ decision.strategy = AGENTIC_RAG
    /\ attempted' = Append(attempted, AGENTIC_RAG)
    /\ raised' = Append(raised, "agentic_error")
    /\ Raise("agentic_error")
    /\ UNCHANGED <<orchestration, tiers, config, cache, metrics, nextId, req, decision, tasks,
                   elapsed, call>>

\* _execute_query, any other strategy (cache): ValueError
ExecuteUnknown ==
    /\ pc = "execute"
    /\ decision.strategy \notin {CLASSIC_RAG, AGENTIC_RAG, HYBRID}
    /\ Raise("unknown_strategy")
    /\ UNCHANGED <<orchestration, tiers, config, raised, cache, metrics, nextId, req, decision, tasks,
                   attempted, elapsed, call>>

\* _execute_hybrid: both tasks are created, gather waits for them
ExecuteHybrid ==
    /\ pc = "execute"
    /\ decision.strategy = HYBRID
    /\ attempted' = Append(attempted, HYBRID)
    /\ tasks' = NoTasks
    /\ pc' = "gather"
    /\ UNCHANGED <<orchestration, tiers, config, raised, cache, metrics, nextId, req, decision, elapsed,
                   result, call>>

\* the elements of a sequence
Range(seq) == {seq[i] : i \in 1..Len(seq)}

\* a task of _execute_hybrid that ended with an exception
FailedTask(error) == [NoResult EXCEPT !.error = error]

\* gather() is still awaited by query()
Gathering == pc = "gather"

\* gather() has raised the first exception to query(), which has returned;
\* asyncio leaves the other task running, and nobody awaits it
Orphaned == pc = "done" /\ HYBRID \in Range(attempted) /\ result.error # NONE

\* gather(): once both tasks have returned, the more confident result wins
Gathered(t) ==
    IF Gathering /\ t.classic_task.answer # NONE /\ t.agentic_task.answer # NONE
    THEN /\ result' = hybrid_result(t.classic_task, t.agentic_task)
         /\ pc' = AfterExecute
    ELSE /\ result' = result
         /\ pc' = pc

\* a task raises: while gather() is awaited the exception reaches query(),
\* afterwards it is lost
TaskRaised(error) ==
    /\ raised' = Append(raised, error)
    /\ IF Gathering
       THEN Raise(error)
       ELSE UNCHANGED <<result, pc>>

\* classic_task returns
ClassicTaskReturns(confidence) ==
    /\ Gathering \/ Orphaned
    /\ tasks.classic_task = NoResult
    /\ tasks' = [tasks EXCEPT !.classic_task = classic_result(req.metadata, confidence)]
    /\ Gathered(tasks')
    /\ UNCHANGED <<orchestration, tiers, config, raised, cache, metrics, nextId, req, decision, attempted,
                   elapsed, call>>

\* classic_task raises
ClassicTaskFails ==
    /\ Gathering \/ Orphaned
    /\ tasks.classic_task = NoResult
    /\ tasks' = [tasks EXCEPT !.classic_task = FailedTask("classic_error")]
    /\ TaskRaised("classic_error")
    /\ UNCHANGED <<orchestration, tiers, config, cache, metrics, nextId, req, decision,
                   attempted, elapsed, call>>

\* agentic_task returns
AgenticTaskReturns(confidence) ==
    /\ Gathering \/ Orphaned
    /\ tasks.agentic_task = NoResult
    /\ tasks' = [tasks EXCEPT !.agentic_task = agentic_result(req.metadata, confidence)]
    /\ Gathered(tasks')
    /\ UNCHANGED <<orchestration, tiers, config, raised, cache, metrics, nextId, req, decision, attempted,
                   elapsed, call>>

\* agentic_task raises
AgenticTaskFails ==
    /\ Gathering \/ Orphaned
    /\ tasks.agentic_task = NoResult
    /\ tasks' = [tasks EXCEPT !.agentic_task = FailedTask("agentic_error")]
    /\ TaskRaised("agentic_error")
    /\ UNCHANGED <<orchestration, tiers, config, cache, metrics, nextId, req, decision,
                   attempted, elapsed, call>>

\* query(): await self._save_to_cache(query_metadata, result)
SaveToCache ==
    /\ pc = "save"
    /\ cache' = CacheSet(cache, req.metadata.original_query, result)
    /\ pc' = IF monitoring_enabled THEN "metrics" ELSE "done"
    /\ UNCHANGED <<orchestration, tiers, config, raised, metrics, nextId, req, decision, tasks, attempted,
                   elapsed, result, call>>

\* _save_to_cache: self.cache.set raises; the exception reaches the except
\* branch of query() and the pipeline's result is lost
SaveToCacheFails ==
    /\ pc = "save"
    /\ Raise("cache_error")
    /\ UNCHANGED <<orchestration, tiers, config, raised, cache, metrics, nextId, req, decision, tasks,
                   attempted, elapsed, call>>

\* query(): await self._collect_metrics(result); then the result is returned
CollectMetrics ==
    /\ pc = "metrics"
    /\ metrics' = metrics + 1
    /\ pc' = "done"
    /\ UNCHANGED <<orchestration, tiers, config, raised, cache, nextId, req, decision, tasks, attempted,
                   elapsed, result, call>>

\* _collect_metrics: self.metrics.record raises; the exception reaches the
\* except branch of query() after the cache write has been made
CollectMetricsFails ==
    /\ pc = "metrics"
    /\ Raise("metrics_error")
    /\ UNCHANGED <<orchestration, tiers, config, raised, cache, metrics, nextId, req,
                   decision, tasks, attempted, elapsed, call>>

Next ==
    \/ \E q \in Queries, f \in RoutingStrategy \cup {NONE} : Query(q, f)
    \/ \E q \in Queries : simple_query(q)
    \/ \E q \in Queries : complex_query(q)
    \/ \E q \in Queries : WarmCache(q)
    \/ CheckCache
    \/ CheckCacheFails
    \/ RouteQuery
    \/ Tick
    \/ \E c \in ClassicConfidences : ExecuteClassic(c)
    \/ ExecuteClassicFails
    \/ \E c \in AgenticConfidences : ExecuteAgentic(c)
    \/ ExecuteAgenticFails
    \/ ExecuteUnknown
    \/ ExecuteHybrid
    \/ \E c \in ClassicConfidences : ClassicTaskReturns(c)
    \/ ClassicTaskFails
    \/ \E c \in AgenticConfidences : AgenticTaskReturns(c)
    \/ AgenticTaskFails
    \/ SaveToCache
    \/ SaveToCacheFails
    \/ CollectMetrics

Spec == Init /\ [][Next]_vars

\* query() with a metrics collector whose record() can raise as well
NextFailingMetrics ==
    \/ Next
    \/ CollectMetricsFails

SpecFailingMetrics == Init /\ [][NextFailingMetrics]_vars

\* ------------------------------------------- query() on the edge-case texts
\* unforced requests for the empty text and the text of more than 50 words:
\* the first is routed to classic, the second to agentic
NextEdgeCases ==
    \/ \E q \in EdgeQueries : Query(q, NONE)
    \/ CheckCache
    \/ CheckCacheFails
    \/ RouteQuery
    \/ Tick
    \/ \E c \in ClassicConfidences : ExecuteClassic(c)
    \/ ExecuteClassicFails
    \/ \E c \in AgenticConfidences : ExecuteAgentic(c)
    \/ ExecuteAgenticFails
    \/ SaveToCache
    \/ SaveToCacheFails
    \/ CollectMetrics

SpecEdgeCases == Init /\ [][NextEdgeCases]_vars

\* ------------------------------------------------- the router, called directly
\* confidences handed to _determine_strategy: a grid over [0, 1] and the
\* values around the 0.7 threshold
ConfidenceInputs ==
    {(i * 10000) \div ConfGrid : i \in 0..ConfGrid} \cup {6999, 7000, 7001}

\* router._determine_strategy(complexity, confidence)
CallDetermineStrategy(complexity, confidence) ==
    /\ call' = [op |-> "determine_strategy",
                complexity |-> complexity,
                confidence |-> confidence,
                strategy |-> determine_strategy(complexity, confidence)]
    /\ UNCHANGED <<orchestration, tiers, config, cache, metrics, nextId, pc, req, decision, tasks,
                   attempted, raised, elapsed, result>>

\* router._get_fallback_strategies(primary_strategy)
CallGetFallbackStrategies(primary_strategy) ==
    /\ call' = [op |-> "get_fallback_strategies",
                strategy |-> primary_strategy,
                fallback_strategies |-> get_fallback_strategies(primary_strategy)]
    /\ UNCHANGED <<orchestration, tiers, config, cache, metrics, nextId, pc, req, decision, tasks,
                   attempted, raised, elapsed, result>>

\* router.route(query_metadata) on the metadata the analyzer gives for q
CallRoute(q) ==
    /\ call' = [op |-> "route",
                complexity |-> analyze_query(q, 0).complexity,
                confidence |-> heuristic_classify(q).confidence,
                decision |-> route(analyze_query(q, 0))]
    /\ UNCHANGED <<orchestration, tiers, config, cache, metrics, nextId, pc, req, decision, tasks,
                   attempted, raised, elapsed, result>>

\* Settings(complexity_threshold_simple, complexity_threshold_complex) in
\* units of 1/10000: the defaults and two other pairs
ThresholdSettings == {<<3000, 7000>>, <<5000, 7000>>, <<2000, 5000>>}

\* _analyze_query(q) of a system built with the thresholds t: the router
\* stores them as simple_threshold and complex_threshold, nothing reads them
CallAnalyzeQuery(q, t) ==
    /\ call' = [op |-> "analyze_query",
                simple_threshold |-> t[1],
                complex_threshold |-> t[2],
                metadata |-> analyze_query(q, 0)]
    /\ UNCHANGED <<orchestration, tiers, config, cache, metrics, nextId, pc, req, decision, tasks,
                   attempted, raised, elapsed, result>>

\* len(original_query) of the metadata handed to the estimates
QueryLengths == {0, 17, 250, 1000}

\* router._estimate_time and router._estimate_cost for one strategy and one
\* QueryMetadata, of which they read complexity and len(original_query)
CallEstimate(strategy, complexity, query_length) ==
    /\ call' = [op |-> "estimate",
                strategy |-> strategy,
                complexity |-> complexity,
                query_length |-> query_length,
                estimated_time_ms |-> estimate_time(strategy, complexity),
                estimated_cost_usd |-> estimate_cost(strategy, query_length)]
    /\ UNCHANGED <<orchestration, tiers, config, cache, metrics, nextId, pc, req, decision, tasks,
                   attempted, raised, elapsed, result>>

NextRouter ==
    \/ \E s \in RoutingStrategy, c \in QueryComplexity, n \in QueryLengths :
           CallEstimate(s, c, n)
    \/ \E c \in QueryComplexity, f \in ConfidenceInputs : CallDetermineStrategy(c, f)
    \/ \E s \in RoutingStrategy : CallGetFallbackStrategies(s)
    \/ \E q \in Queries \cup EdgeQueries : CallRoute(q)
    \/ \E q \in Queries \cup EdgeQueries, t \in ThresholdSettings :
           CallAnalyzeQuery(q, t)

SpecRouter == Init /\ [][NextRouter]_vars

\* ------------------------------------- the hybrid coordinator, called directly
\* confidences the two pipelines can report in result["confidence"]: the two
\* defaults, the ends of [0, 1] and a value in between
PipelineConfidences == ClassicConfidences \cup AgenticConfidences \cup {0, 5000, 10000}

\* _execute_hybrid with both pipelines answering, over every pair of
\* these confidences
CallExecuteHybrid(q, classic_confidence, agentic_confidence) ==
    /\ call' = [op |-> "execute_hybrid",
                classic |-> classic_result(analyze_query(q, 0), classic_confidence),
                agentic |-> agentic_result(analyze_query(q, 0), agentic_confidence),
                result |-> hybrid_result(
                    classic_result(analyze_query(q, 0), classic_confidence),
                    agentic_result(analyze_query(q, 0), agentic_confidence))]
    /\ UNCHANGED <<orchestration, tiers, config, cache, metrics, nextId, pc, req, decision, tasks,
                   attempted, raised, elapsed, result>>

NextCoordinator ==
    \E q \in Queries, c \in PipelineConfidences, a \in PipelineConfidences :
        CallExecuteHybrid(q, c, a)

SpecCoordinator == Init /\ [][NextCoordinator]_vars

\* -------------------------------------------- the classifier, called directly
\* classifier.classify(query_metadata) on the metadata of the text q
CallClassify(q) ==
    /\ call' = [op |-> "classify",
                query |-> q,
                classification |-> classify(analyze_query(q, 0))]
    /\ UNCHANGED <<orchestration, tiers, config, cache, metrics, nextId, pc, req, decision, tasks,
                   attempted, raised, elapsed, result>>

NextClassifier ==
    \E q \in Queries \cup EdgeQueries \cup ClassifierQueries : CallClassify(q)

SpecClassifier == Init /\ [][NextClassifier]_vars

\* --------------------------------------- the pipeline wrappers, called directly
\* what a pipeline puts in result["confidence"] or result["relevance"]: no
\* entry, values in [0, 1] and values outside it
ReportedScores ==
    {[given |-> FALSE, value |-> 0]}
        \cup {[given |-> TRUE, value |-> v] : v \in {-1000, 0, 5000, 10000, 15000}}

\* dict.get(key, default) on such an entry
get(reported, default) == IF reported.given THEN reported.value ELSE default

\* _execute_classic_rag where the pipeline reports these two values
CallExecuteClassic(q, confidence, relevance) ==
    /\ call' = [op |-> "execute_classic",
                result |-> classic_result(analyze_query(q, 0), get(confidence, 8000)),
                relevance_score |-> get(relevance, 8000)]
    /\ UNCHANGED <<orchestration, tiers, config, cache, metrics, nextId, pc, req, decision, tasks,
                   attempted, raised, elapsed, result>>

\* _execute_agentic_rag where the orchestrator reports these two values
CallExecuteAgentic(q, confidence, relevance) ==
    /\ call' = [op |-> "execute_agentic",
                result |-> agentic_result(analyze_query(q, 0), get(confidence, 9000)),
                relevance_score |-> get(relevance, 9000)]
    /\ UNCHANGED <<orchestration, tiers, config, cache, metrics, nextId, pc, req, decision, tasks,
                   attempted, raised, elapsed, result>>

NextPipelines ==
    \/ \E q \in Queries, c \in ReportedScores, r \in ReportedScores :
           CallExecuteClassic(q, c, r)
    \/ \E q \in Queries, c \in ReportedScores, r \in ReportedScores :
           CallExecuteAgentic(q, c, r)

SpecPipelines == Init /\ [][NextPipelines]_vars

\* ------------------------------------------------- the L1 tier, used directly
\* str.lower() on the keys of the model
lower(key) ==
    CASE key = "What is Python?" -> "what is python?"
      [] key = "What is python?" -> "what is python?"
      [] key = "What  is Python" -> "what  is python"

\* a fingerprint that folds case
fingerprint_casefold(key) == lower(key)

\* the fingerprint L1 keys its entries by: the query text itself, with no
\* normalisation
fingerprint(key) == key

\* a TTL check that lets an entry live one tick longer
expired_one_tick_late(entry, t) == t > entry.created_at + l1_ttl + 1

\* the entry's TTL has run out at time t
expired(entry, t) == t > entry.created_at + l1_ttl

\* the entries other than the one of a fingerprint, in their order
l1_without(entries, fp) == SelectSeq(entries, LAMBDA e : e.key # fp)

\* a fingerprint has an entry
l1_resident(entries, fp) == \E i \in 1..Len(entries) : entries[i].key = fp

\* the entry of a resident fingerprint
l1_entry(entries, fp) ==
    entries[CHOOSE i \in 1..Len(entries) : entries[i].key = fp]

\* a get() that leaves the entry where it is in the order of use
l1_touch_keeps_place(entries, fp) == entries

\* L1Cache.get on the store: the entry of the key becomes the most recently
\* used
l1_touch(entries, fp) == Append(l1_without(entries, fp), l1_entry(entries, fp))

\* the history of uses after a use of a key
l1_used(uses, key) == Append(SelectSeq(uses, LAMBDA k : k # key), key)

\* a set() that leaves the entry of a key that is already stored as it is
l1_put_keeps_old(entries, fp, value, t, max_size) ==
    IF l1_resident(entries, fp)
    THEN entries
    ELSE LET room == IF Len(entries) >= max_size THEN Tail(entries) ELSE entries
         IN Append(room, [key |-> fp, value |-> value, created_at |-> t])

\* L1Cache.set on the store: the key's entry is inserted or replaced, most
\* recently used; an insert at capacity evicts the least recently used entry
l1_put(entries, fp, value, t, max_size) ==
    LET others == l1_without(entries, fp)
        room == IF Len(others) >= max_size THEN Tail(others) ELSE others
    IN Append(room, [key |-> fp, value |-> value, created_at |-> t])

\* the history after the store has changed: the keys whose entry has left
\* the store (evicted or cleared) are marked dropped
l1_history(sets, before, after) ==
    [k \in DOMAIN sets |->
        IF l1_resident(before, fingerprint(k)) /\ ~l1_resident(after, fingerprint(k))
        THEN [sets[k] EXCEPT !.dropped = TRUE]
        ELSE sets[k]]

\* await l1_cache.set(key, value)
L1Set(key, value) ==
    /\ l1_entries' = l1_put(l1_entries, fingerprint(key), value, now, l1_max_size)
    /\ l1_sets' = [k \in DOMAIN l1_sets \cup {key} |->
                      IF k = key
                      THEN [value |-> value, at |-> now, dropped |-> FALSE]
                      ELSE l1_history(l1_sets, l1_entries, l1_entries')[k]]
    /\ l1_call' = [op |-> "set", key |-> key, value |-> value, at |-> now,
                   hit |-> FALSE]
    /\ l1_uses' = l1_used(l1_uses, key)
    /\ UNCHANGED <<orchestration, front_end, m_call, l1_max_size, l1_ttl, now, l2_tier, l3_tier>>

\* await l1_cache.get(key): the value of the key's entry unless it has
\* expired, and the entry becomes the most recently used; an expired entry
\* is removed
L1Get(key) ==
    LET fp == fingerprint(key)
    IN /\ IF l1_resident(l1_entries, fp) /\ ~expired(l1_entry(l1_entries, fp), now)
          THEN /\ l1_entries' = l1_touch(l1_entries, fp)
               /\ l1_uses' = l1_used(l1_uses, key)
               /\ l1_call' = [op |-> "get", key |-> key,
                              value |-> l1_entry(l1_entries, fp).value,
                              at |-> now, hit |-> TRUE]
          ELSE /\ l1_entries' = l1_without(l1_entries, fp)
               /\ l1_uses' = l1_uses
               /\ l1_call' = [op |-> "get", key |-> key, value |-> NONE,
                              at |-> now, hit |-> FALSE]
       /\ UNCHANGED <<orchestration, front_end, m_call, l1_max_size, l1_ttl, now, l1_sets, l2_tier, l3_tier>>

\* await l1_cache.clear()
L1Clear ==
    /\ l1_entries' = <<>>
    /\ l1_sets' = l1_history(l1_sets, l1_entries, <<>>)
    /\ l1_uses' = <<>>
    /\ l1_call' = [op |-> "clear", key |-> NONE, value |-> NONE, at |-> now,
                   hit |-> FALSE]
    /\ UNCHANGED <<orchestration, front_end, m_call, l1_max_size, l1_ttl, now, l2_tier, l3_tier>>

\* await asyncio.sleep(...): the clock advances; no call is being answered
Sleep ==
    /\ now < MaxClock
    /\ now' = now + 1
    /\ l1_call' = NoL1Call
    /\ l2_call' = NoL2Call
    /\ UNCHANGED <<orchestration, front_end, m_call, l1_entries, l1_max_size, l1_ttl, l1_sets, l1_uses,
                   l2_entries, l2_ttl, l3_tier>>

NextL1 ==
    \/ \E k \in L1Keys, v \in L1Values : L1Set(k, v)
    \/ \E k \in L1Keys : L1Get(k)
    \/ L1Clear
    \/ Sleep

\* a front-end at rest and an empty L1 tier of any size up to L1MaxSize
InitL1 ==
    /\ InitOrchestrator
    /\ InitHybridRAG
    /\ cache_enabled /\ monitoring_enabled /\ timeout_seconds = 1
    /\ InitL1Cache(1..L1MaxSize, L1TtlSettings)
    /\ InitL2Cache(L1TtlSettings)
    /\ InitL3Cache
    /\ InitCacheManager

SpecL1 == InitL1 /\ [][NextL1]_vars

\* ------------------------------------------ the L1 tier, capacity and recency
\* four keys for a tier of up to three entries; the clock stands still, so
\* that no entry expires
LruKeys == {"K1", "K2", "K3", "K4"}

NextLru ==
    \/ \E k \in LruKeys, v \in L1Values : L1Set(k, v)
    \/ \E k \in LruKeys : L1Get(k)
    \/ L1Clear

SpecLru == InitL1 /\ [][NextLru]_vars

\* a front-end at rest and empty tiers, the L1 tier of size L1MaxSize
InitTiers == InitL1 /\ l1_max_size = L1MaxSize

\* ------------------------------------------------- the L2 tier, used directly
\* L2Cache(similarity_threshold=0.95), in units of 1/100
similarity_threshold == 95

\* the queries of the L2 tier and the vectors embedding_model.encode gives
\* them
L2Queries == {"What is Python?", "What's Python?", "Python basics", "What is Java?"}
Embedding(q) ==
    CASE q = "What is Python?" -> <<1, 0>>
      [] q = "What's Python?" -> <<10, 1>>
      [] q = "Python basics" -> <<3, 1>>
      [] q = "What is Java?" -> <<0, 1>>
      [] q = "Test query" -> <<1, 0>>
      [] q = "Other query" -> <<10, 1>>
      [] q = "Unrelated" -> <<0, 1>>

dot(a, b) == a[1] * b[1] + a[2] * b[2]

\* cosine similarity of a and b >= threshold/100, for vectors with
\* non-negative components: dot^2 / (|a|^2 |b|^2) >= (threshold/100)^2
cosine_at_least(a, b, threshold) ==
    dot(a, b) * dot(a, b) * 10000 >= threshold * threshold * dot(a, a) * dot(b, b)

\* a is at least as similar to q as b is: dot(a,q)/|a| >= dot(b,q)/|b|
at_least_as_similar(a, b, q) ==
    dot(a, q) * dot(a, q) * dot(b, b) >= dot(b, q) * dot(b, q) * dot(a, a)

\* the L2 entry's TTL has run out at time t
l2_expired(entry, t) == t > entry.created_at + l2_ttl

\* the stored queries a lookup with this embedding may return: not expired
\* and similar enough
l2_candidates(entries, embedding, t) ==
    {q \in DOMAIN entries :
        /\ ~l2_expired(entries[q], t)
        /\ cosine_at_least(entries[q].embedding, embedding, similarity_threshold)}

\* a lookup that returns whichever candidate it meets first
l2_best_first_found(entries, embedding, t) ==
    CHOOSE q \in l2_candidates(entries, embedding, t) : TRUE

\* the candidate get_similar returns: one of the highest similarity
l2_best(entries, embedding, t) ==
    CHOOSE q \in l2_candidates(entries, embedding, t) :
        \A o \in l2_candidates(entries, embedding, t) :
            at_least_as_similar(entries[q].embedding, entries[o].embedding, embedding)

\* await l2_cache.set(query, result, embedding)
L2Set(query, value) ==
    /\ l2_entries' = [q \in DOMAIN l2_entries \cup {query} |->
                         IF q = query
                         THEN [result |-> value, embedding |-> Embedding(query),
                               created_at |-> now]
                         ELSE l2_entries[q]]
    /\ l2_call' = [op |-> "set", query |-> query, hit |-> FALSE, found |-> NONE]
    /\ UNCHANGED <<orchestration, front_end, m_call, l1_tier, now, l2_ttl, l3_tier>>

\* await l2_cache.get_similar(query, embedding)
L2GetSimilar(query) ==
    /\ l2_call' =
           IF l2_candidates(l2_entries, Embedding(query), now) = {}
           THEN [op |-> "get_similar", query |-> query, hit |-> FALSE, found |-> NONE]
           ELSE [op |-> "get_similar", query |-> query, hit |-> TRUE,
                 found |-> l2_best(l2_entries, Embedding(query), now)]
    /\ UNCHANGED <<orchestration, front_end, m_call, l1_tier, now, l2_entries, l2_ttl, l3_tier>>

NextL2 ==
    \/ \E q \in L2Queries, v \in L1Values : L2Set(q, v)
    \/ \E q \in L2Queries : L2GetSimilar(q)
    \/ Sleep

SpecL2 == InitTiers /\ [][NextL2]_vars

\* ------------------------------------------------- the L3 tier, used directly
\* the queries whose paths are cached, and the paths: the agents of the
\* executed steps in order (an empty list is no path)
L3Queries == {"Complex analytical query", "Query", "Other query"}
L3Paths == {<<"research", "analysis", "synthesis">>, <<"research", "synthesis">>}

\* a save_path that replaces the stored path whatever is_better says
l3_store_always_replaces(paths, query, path, is_better) ==
    [q \in DOMAIN paths \cup {query} |-> IF q = query THEN path ELSE paths[q]]

\* L3Cache.save_path on the store: the path is stored when the slot of the
\* query is empty or is_better is true
l3_store(paths, query, path, is_better) ==
    IF query \in DOMAIN paths /\ ~is_better
    THEN paths
    ELSE [q \in DOMAIN paths \cup {query} |-> IF q = query THEN path ELSE paths[q]]

\* await l3_cache.save_path(query, path, is_better)
L3SavePath(query, path, is_better) ==
    /\ l3_paths' = l3_store(l3_paths, query, path, is_better)
    /\ l3_call' = [op |-> "save_path", query |-> query, path |-> path,
                   is_better |-> is_better,
                   before |-> IF query \in DOMAIN l3_paths THEN l3_paths[query]
                              ELSE <<>>,
                   hit |-> FALSE]
    /\ UNCHANGED <<orchestration, front_end, m_call, l1_tier, l2_tier, now>>

\* await l3_cache.get_path(query)
L3GetPath(query) ==
    /\ l3_call' = [op |-> "get_path", query |-> query,
                   path |-> IF query \in DOMAIN l3_paths THEN l3_paths[query]
                            ELSE <<>>,
                   is_better |-> FALSE,
                   before |-> <<>>,
                   hit |-> query \in DOMAIN l3_paths]
    /\ UNCHANGED <<orchestration, front_end, m_call, l1_tier, l2_tier, now, l3_paths>>

NextL3 ==
    \/ \E q \in L3Queries, p \in L3Paths, b \in BOOLEAN : L3SavePath(q, p, b)
    \/ \E q \in L3Queries : L3GetPath(q)

SpecL3 == InitTiers /\ [][NextL3]_vars

\* --------------------------------------------------------- the cache manager
\* the queries the manager caches: the second is close to the first in
\* embedding (cosine 0.995), the third is far from both
ManagerQueries == {"Test query", "Other query", "Unrelated"}

\* the characters of a query text
chars(q) ==
    CASE q = "Test query" -> <<"T", "e", "s", "t", " ", "q", "u", "e", "r", "y">>
      [] q = "Other query" -> <<"O", "t", "h", "e", "r", " ", "q", "u", "e", "r", "y">>
      [] q = "Unrelated" -> <<"U", "n", "r", "e", "l", "a", "t", "e", "d">>

\* the globs handed to invalidate_pattern: "*", "Test*", "*query", "Unrelated"
Patterns == {<<"*">>,
             <<"T", "e", "s", "t", "*">>,
             <<"*", "q", "u", "e", "r", "y">>,
             chars("Unrelated")}

\* glob matching of a text against a pattern: * stands for any run of
\* characters, ? for any one character, everything else for itself
RECURSIVE glob_match(_, _)
glob_match(pattern, text) ==
    IF pattern = <<>> THEN text = <<>>
    ELSE IF Head(pattern) = "*"
         THEN \/ glob_match(Tail(pattern), text)
              \/ text # <<>> /\ glob_match(pattern, Tail(text))
    ELSE /\ text # <<>>
         /\ Head(pattern) = "?" \/ Head(pattern) = Head(text)
         /\ glob_match(Tail(pattern), Tail(text))

\* the query of an entry matches the pattern
matches(pattern, q) == glob_match(pattern, chars(q))

\* an invalidation of L1 that empties the tier
l1_invalidate_clears_all(entries, pattern) == <<>>

\* invalidate_pattern on L1: the entries whose key matches go
l1_invalidate(entries, pattern) ==
    SelectSeq(entries, LAMBDA e : ~matches(pattern, e.key))

\* an L2 entry is an echo of an invalidated one: its embedding is within
\* the similarity threshold of the embedding of an entry whose query matches
l2_echo(entries, pattern, q) ==
    \E i \in DOMAIN entries :
        /\ matches(pattern, i)
        /\ cosine_at_least(entries[q].embedding, entries[i].embedding,
                           similarity_threshold)

\* invalidate_pattern on L2: the matching entries and their echoes go
l2_invalidate(entries, pattern) ==
    [q \in {k \in DOMAIN entries :
               ~matches(pattern, k) /\ ~l2_echo(entries, pattern, k)} |-> entries[q]]

\* invalidate_pattern on L3: the paths of the matching queries go
l3_invalidate(paths, pattern) ==
    [q \in {k \in DOMAIN paths : ~matches(pattern, k)} |-> paths[q]]

\* await cache_manager.cache_result(query, result, path=...): the write fans
\* out to L1 and L2, and to L3 when a path is given
CacheResult(query, value, path) ==
    /\ l1_entries' = l1_put(l1_entries, fingerprint(query), value, now, l1_max_size)
    /\ l1_sets' = [k \in DOMAIN l1_sets \cup {query} |->
                      IF k = query
                      THEN [value |-> value, at |-> now, dropped |-> FALSE]
                      ELSE l1_history(l1_sets, l1_entries, l1_entries')[k]]
    /\ l1_uses' = l1_used(l1_uses, query)
    /\ l2_entries' = [q \in DOMAIN l2_entries \cup {query} |->
                         IF q = query
                         THEN [result |-> value, embedding |-> Embedding(query),
                               created_at |-> now]
                         ELSE l2_entries[q]]
    /\ l3_paths' = IF path = <<>> THEN l3_paths
                   ELSE l3_store(l3_paths, query, path, FALSE)
    /\ l1_call' = NoL1Call
    /\ l2_call' = NoL2Call
    /\ l3_call' = NoL3Call
    /\ m_call' = [op |-> "cache_result", pattern |-> <<>>, before |-> NoTiers]
    /\ UNCHANGED <<orchestration, front_end, l1_max_size, l1_ttl, l2_ttl, now>>

\* await cache_manager.get_cached_result(query): the read chain L1, L2, L3
\* stops at the first hit
GetCachedResult(query) ==
    LET fp == fingerprint(query)
        hit1 == l1_resident(l1_entries, fp) /\ ~expired(l1_entry(l1_entries, fp), now)
        hit2 == l2_candidates(l2_entries, Embedding(query), now) # {}
    IN /\ l1_entries' = IF hit1 THEN l1_touch(l1_entries, fp)
                        ELSE l1_without(l1_entries, fp)
       /\ l1_uses' = IF hit1 THEN l1_used(l1_uses, query) ELSE l1_uses
       /\ l1_call' = [op |-> "get", key |-> query,
                      value |-> IF hit1 THEN l1_entry(l1_entries, fp).value ELSE NONE,
                      at |-> now, hit |-> hit1]
       /\ l2_call' = IF hit1 THEN NoL2Call
                     ELSE [op |-> "get_similar", query |-> query, hit |-> hit2,
                           found |-> IF hit2
                                     THEN l2_best(l2_entries, Embedding(query), now)
                                     ELSE NONE]
       /\ l3_call' = IF hit1 \/ hit2 THEN NoL3Call
                     ELSE [op |-> "get_path", query |-> query,
                           path |-> IF query \in DOMAIN l3_paths
                                    THEN l3_paths[query] ELSE <<>>,
                           is_better |-> FALSE,
                           before |-> <<>>,
                           hit |-> query \in DOMAIN l3_paths]
       /\ UNCHANGED <<orchestration, front_end, m_call, l1_max_size, l1_ttl, l1_sets, l2_entries,
                      l2_ttl, l3_paths, now>>

\* await cache_manager.invalidate_pattern(pattern)
InvalidatePattern(pattern) ==
    /\ l1_entries' = l1_invalidate(l1_entries, pattern)
    /\ l1_sets' = l1_history(l1_sets, l1_entries, l1_entries')
    /\ l1_uses' = SelectSeq(l1_uses, LAMBDA k : ~matches(pattern, k))
    /\ l2_entries' = l2_invalidate(l2_entries, pattern)
    /\ l3_paths' = l3_invalidate(l3_paths, pattern)
    /\ l1_call' = NoL1Call
    /\ l2_call' = NoL2Call
    /\ l3_call' = NoL3Call
    /\ m_call' = [op |-> "invalidate_pattern", pattern |-> pattern,
                  before |-> [l1 |-> l1_entries, l2 |-> l2_entries, l3 |-> l3_paths]]
    /\ UNCHANGED <<orchestration, front_end, l1_max_size, l1_ttl, l2_ttl, now>>

NextManager ==
    \/ \E q \in ManagerQueries, v \in L1Values, p \in L3Paths \cup {<<>>} :
           CacheResult(q, v, p)
    \/ \E q \in ManagerQueries : GetCachedResult(q)
    \/ \E p \in Patterns : InvalidatePattern(p)

SpecManager == InitTiers /\ [][NextManager]_vars

\* ------------------------------------- the agentic example: complex_analysis
\* _decompose_query: the three subtasks it always returns, by type
subtasks == <<"research", "analysis", "synthesis">>

\* what an agent can put under 'confidence' in its result: nothing, or a value
AgentConfidences ==
    {[given |-> FALSE, value |-> 0]}
        \cup {[given |-> TRUE, value |-> v] : v \in {6000, 9000}}

\* the entry results[f"task_{i}"] (refined = FALSE) or
\* results[f"task_{i}_refined"] (refined = TRUE)
result_entry(i, refined, confidence, needs_refinement) ==
    [task |-> i, refined |-> refined, confidence |-> confidence,
     needs_refinement |-> needs_refinement]

\* sum of a sequence of numbers
RECURSIVE sum(_)
sum(seq) == IF seq = <<>> THEN 0 ELSE Head(seq) + sum(Tail(seq))

\* the entries of a results dict that carry a confidence
with_confidence(entry) == entry.confidence.given

\* _calculate_confidence: sum(confidences) / len(confidences) as a fraction,
\* or 0.75 when no entry has a confidence
calculate_confidence(res) ==
    LET reporting == SelectSeq(res, with_confidence)
        confidences == [k \in 1..Len(reporting) |-> reporting[k].confidence.value]
    IN IF confidences # <<>>
       THEN [sum |-> sum(confidences), count |-> Len(confidences)]
       ELSE [sum |-> 7500, count |-> 1]

\* where the loop goes once subtask i is dealt with
next_subtask(i) == IF i < Len(subtasks) THEN "select" ELSE "synthesize"

\* the loop body that never takes the refinement branch
after_execute_without_refinement(i, needs_refinement) == next_subtask(i)

\* the loop body after agent.execute returned: the refinement branch is taken
\* when the result has needs_refinement set
after_execute(i, needs_refinement) ==
    IF needs_refinement THEN "refine" ELSE next_subtask(i)

\* complex_analysis(query): _decompose_query, results = {}
ComplexAnalysis ==
    /\ a_pc = "idle"
    /\ a_pc' = "select"
    /\ task_i' = 1
    /\ results' = <<>>
    /\ contexts' = <<>>
    /\ final_result' = NoFinalResult
    /\ UNCHANGED <<front_end, tiers>>

\* the loop body up to the call agent.execute(task=task, context=results):
\* the agent starts with the results as they are now
AgentStarts ==
    /\ a_pc \in {"select"}
    /\ contexts' = Append(contexts, results)
    /\ a_pc' = "running"
    /\ UNCHANGED <<front_end, tiers, task_i, results, final_result>>

\* agent.execute returns a result; results[f"task_{i}"] = result
AgentReturns(confidence, needs_refinement) ==
    /\ a_pc = "running"
    /\ results' = Append(results,
                         result_entry(task_i, FALSE, confidence, needs_refinement))
    /\ a_pc' = after_execute(task_i, needs_refinement)
    /\ task_i' = IF a_pc' = "select" THEN task_i + 1 ELSE task_i
    /\ UNCHANGED <<front_end, tiers, contexts, final_result>>

\* agent.execute raises: complex_analysis has no handler and ends there
AgentFails ==
    /\ a_pc = "running"
    /\ a_pc' = "failed"
    /\ UNCHANGED <<front_end, tiers, task_i, results, contexts, final_result>>

\* _refine_result returns {'content', 'confidence': 0.9, 'refined': True};
\* results[f"task_{i}_refined"] = refined
RefineResult ==
    /\ a_pc = "refine"
    /\ results' = Append(results,
                         result_entry(task_i, TRUE,
                                      [given |-> TRUE, value |-> 9000], FALSE))
    /\ a_pc' = next_subtask(task_i)
    /\ task_i' = IF a_pc' = "select" THEN task_i + 1 ELSE task_i
    /\ UNCHANGED <<front_end, tiers, contexts, final_result>>

\* _synthesize_results(query, results) and the return of complex_analysis
SynthesizeResults ==
    /\ a_pc = "synthesize"
    /\ final_result' = [subtasks_completed |-> Len(results),
                        confidence |-> calculate_confidence(results),
                        total_iterations |-> Len(results)]
    /\ a_pc' = "done"
    /\ UNCHANGED <<front_end, tiers, task_i, results, contexts>>

NextOrchestrator ==
    \/ ComplexAnalysis
    \/ AgentStarts
    \/ \E c \in AgentConfidences, r \in BOOLEAN : AgentReturns(c, r)
    \/ AgentFails
    \/ RefineResult
    \/ SynthesizeResults

SpecOrchestrator == Init /\ [][NextOrchestrator]_vars

\* ----------------------------------------------------------------- helpers
\* query() has returned
Returned == pc = "done"

\* the request ran a pipeline and that pipeline raised
PipelineFailed == Returned /\ raised # <<>>

\* ------------------------------------------------------------------ claims

\* C1: every call of query() returns a QueryResult whose query_id is the
\* query_id generated for that call, on the success, cache-hit and error
\* paths alike.
C1_MatchingQueryId ==
    Returned => result.query_id = req.query_id

\* C2: every returned QueryResult has strategy_used in {classic, agentic,
\* hybrid, cache}, and strategy_used = cache exactly when cached = true.
C2_CacheStrategyIffCached ==
    Returned =>
        /\ result.strategy_used \in RoutingStrategy
        /\ (result.strategy_used = CACHE) <=> result.cached

\* C3: when the pipeline of the selected strategy fails and the request has
\* fallback strategies, the first fallback that succeeds supplies the result:
\* error null, fallback_used true, strategy_used one of the fallbacks.
C3_FallbackRecovers ==
    (PipelineFailed /\ decision.fallback_strategies # <<>>) =>
        /\ result.error = NONE
        /\ result.fallback_used
        /\ result.strategy_used \in Range(decision.fallback_strategies)

\* C4: when the pipeline of the selected strategy fails and no fallback is
\* in effect, no other strategy is attempted and the caller gets the failure
\* as an error.  query() never runs a fallback, so this is stated for every
\* request whose pipeline failed, those with an empty fallback list included.
C4_FailureSurfaced ==
    PipelineFailed =>
        /\ attempted = <<decision.strategy>>
        /\ result.error # NONE
        /\ result.error = raised[1]

C4_Witness ==
    /\ PipelineFailed
    /\ req.force_strategy = AGENTIC_RAG
    /\ decision.fallback_strategies = <<>>
    /\ attempted = <<AGENTIC_RAG>>
    /\ result.error = "agentic_error"

\* the strategy the routing table of the specification gives
TableStrategy(complexity, confidence) ==
    CASE complexity = SIMPLE -> CLASSIC_RAG
      [] complexity = MODERATE /\ confidence > 7000 -> CLASSIC_RAG
      [] complexity = MODERATE /\ confidence <= 7000 -> HYBRID
      [] complexity \in {COMPLEX, MULTI_HOP} -> AGENTIC_RAG

\* C5: simple gives classic; moderate gives classic if confidence > 0.7 and
\* hybrid otherwise (0.7 itself included); complex and multi_hop give agentic.
C5_StrategyTable ==
    /\ call.op = "determine_strategy" =>
           call.strategy = TableStrategy(call.complexity, call.confidence)
    /\ call.op = "route" =>
           call.decision.strategy = TableStrategy(call.complexity, call.confidence)

C5_Witness ==
    /\ call.op = "determine_strategy"
    /\ call.complexity = MODERATE
    /\ call.confidence = 7000
    /\ call.strategy = HYBRID

\* the fallback chains the specification fixes
TableFallbacks(strategy) ==
    CASE strategy = AGENTIC_RAG -> <<HYBRID, CLASSIC_RAG>>
      [] strategy = HYBRID -> <<CLASSIC_RAG, AGENTIC_RAG>>
      [] strategy = CLASSIC_RAG -> <<HYBRID, AGENTIC_RAG>>

C7_StrategyNotInFallbacks ==
    decision # NoDecision =>
        /\ decision.strategy \notin Range(decision.fallback_strategies)
        /\ Cardinality(Range(decision.fallback_strategies))
               = Len(decision.fallback_strategies)
        /\ Range(decision.fallback_strategies)
               \subseteq RoutingStrategy \ {decision.strategy}

C7_Witness ==
    /\ req.force_strategy = NONE
    /\ decision.strategy = HYBRID
    /\ decision.fallback_strategies = <<CLASSIC_RAG, AGENTIC_RAG>>

\* C8: every RoutingDecision has a non-empty fallback list unless its
\* strategy is cache, forced decisions included.
C8_FallbackNonEmpty ==
    (decision # NoDecision /\ decision.strategy # CACHE) =>
        decision.fallback_strategies # <<>>

\* a list of strategies in strictly decreasing / increasing base cost
DecreasingCost(seq) ==
    \A i \in 1..(Len(seq) - 1) : base_cost(seq[i]) > base_cost(seq[i + 1])
IncreasingCost(seq) ==
    \A i \in 1..(Len(seq) - 1) : base_cost(seq[i]) < base_cost(seq[i + 1])

\* C9 as stated: in every RoutingDecision, fallback_strategies is ordered by
\* strictly decreasing base cost.
C9_FallbackDecreasingCost ==
    decision # NoDecision => DecreasingCost(decision.fallback_strategies)

\* C9 amended: fallback_strategies is in strictly decreasing base cost when
\* the strategy is agentic, and in strictly increasing base cost when the
\* strategy is hybrid or classic (an empty list is both).
C9_FallbackCostOrder ==
    decision # NoDecision =>
        /\ decision.strategy = AGENTIC_RAG =>
               DecreasingCost(decision.fallback_strategies)
        /\ decision.strategy \in {HYBRID, CLASSIC_RAG} =>
               IncreasingCost(decision.fallback_strategies)

C9_Witness ==
    /\ req.force_strategy = NONE
    /\ decision.strategy = CLASSIC_RAG
    /\ decision.fallback_strategies = <<HYBRID, AGENTIC_RAG>>

\* the deadline of the request has expired
DeadlineExpired == timeout_seconds = 0 \/ elapsed > timeout_seconds

\* C10: a request whose deadline expires before its pipeline has finished
\* ends with a Timeout error and no answer of a pipeline; with a deadline of
\* 0 this holds of every request that reaches a pipeline.
C10_TimeoutOnDeadline ==
    (Returned /\ attempted # <<>> /\ DeadlineExpired) =>
        /\ result.error = "timeout"
        /\ result.answer \notin {"classic", "agentic"}

\* C11: the hybrid strategy returns the agentic result only when its
\* confidence_score is strictly higher than the classic one; on a tie, and
\* when classic is higher, it returns the classic result.
C11_HybridAgenticOnlyIfStrictlyHigher ==
    call.op = "execute_hybrid" =>
        /\ call.result.answer = "agentic" <=>
               call.agentic.confidence_score > call.classic.confidence_score
        /\ call.agentic.confidence_score <= call.classic.confidence_score =>
               /\ call.result.answer = "classic"
               /\ call.result.confidence_score = call.classic.confidence_score
        /\ call.result.strategy_used = HYBRID

C11_Witness ==
    /\ call.op = "execute_hybrid"
    /\ call.classic.confidence_score = 9000
    /\ call.agentic.confidence_score = 9000
    /\ call.result.answer = "classic"

\* a task of _execute_hybrid has raised / has returned a result
TaskFailed(t) == t.error # NONE
TaskReturned(t) == t.answer # NONE

\* exactly one of the two pipelines of a hybrid request failed, and the
\* other one answered
OneHybridPipelineFailed ==
    /\ HYBRID \in Range(attempted)
    /\ \/ TaskFailed(tasks.classic_task) /\ TaskReturned(tasks.agentic_task)
       \/ TaskReturned(tasks.classic_task) /\ TaskFailed(tasks.agentic_task)

\* the result of the pipeline that answered
Survivor ==
    IF TaskReturned(tasks.classic_task) THEN tasks.classic_task ELSE tasks.agentic_task

\* C12: when exactly one of the two pipelines of a hybrid request fails, the
\* request still succeeds: the surviving pipeline's result is returned with
\* fallback_used true and error null.
C12_HybridSurvivorReturned ==
    (Returned /\ OneHybridPipelineFailed) =>
        /\ result.error = NONE
        /\ result.fallback_used
        /\ result.answer = Survivor.answer

\* C13: when both pipelines of a hybrid request fail, the request fails and
\* the error reported is the agentic pipeline's error, whichever of the two
\* failed first.
C13_BothFailAgenticError ==
    (Returned /\ TaskFailed(tasks.classic_task) /\ TaskFailed(tasks.agentic_task)) =>
        result.error = "agentic_error"

\* C14: every error that reaches the caller is a QueryResult with error
\* populated whose strategy_used is the last strategy that was attempted.
C14_ErrorNamesLastStrategy ==
    (Returned /\ raised # <<>>) =>
        /\ result.error # NONE
        /\ result.strategy_used = attempted[Len(attempted)]

\* C15: fallback_used is true exactly when a strategy other than the one
\* initially selected was attempted; an error result of a request that
\* attempted no fallback has fallback_used false.
C15_FallbackUsedTruthful ==
    Returned =>
        (result.fallback_used <=> \E s \in Range(attempted) : s # decision.strategy)

\* query() has not yet got a result from a pipeline
BeforePipelineResult == pc \in {"check_cache", "route", "execute", "gather"}

\* C16: with caching enabled, the cache write of a request happens after the
\* pipeline has produced that request's result (no entry of the request
\* exists earlier) and is complete when query() returns (the returned result
\* is then stored under the query).
C16_CacheWriteBeforeReturn ==
    /\ BeforePipelineResult =>
           \A k \in DOMAIN cache : cache[k].query_id # req.query_id
    /\ (Returned /\ cache_enabled /\ result.error = NONE /\ ~result.cached) =>
           /\ CacheHit(cache, req.metadata.original_query)
           /\ CacheGet(cache, req.metadata.original_query) = result

C16_Witness ==
    /\ Returned
    /\ cache_enabled
    /\ result.answer = "agentic"
    /\ ~result.cached
    /\ CacheHit(cache, req.metadata.original_query)
    /\ CacheGet(cache, req.metadata.original_query) = result

\* what a request forced to one strategy may do: it never reads the cache,
\* runs no pipeline but the forced one, and a successful result is that
\* pipeline's own
ForcedOnly(strategy, answer) ==
    req.force_strategy = strategy =>
        /\ pc # "check_cache"
        /\ Range(attempted) \subseteq {strategy}
        /\ tasks = NoTasks
        /\ (Returned /\ result.error = NONE) =>
               /\ result.strategy_used = strategy
               /\ result.answer = answer
               /\ ~result.cached

\* C18: simple_query runs only the classic pipeline and complex_query only
\* the agentic one, whatever the query's complexity and whatever the cache
\* holds; on success strategy_used is classic resp. agentic.
C18_ForcedStrategyOnly ==
    /\ ForcedOnly(CLASSIC_RAG, "classic")
    /\ ForcedOnly(AGENTIC_RAG, "agentic")

C18_Witness ==
    /\ req.force_strategy = CLASSIC_RAG
    /\ req.metadata.complexity = COMPLEX
    /\ pc = "save"
    /\ CacheHit(cache, req.metadata.original_query)
    /\ CacheGet(cache, req.metadata.original_query).answer = "agentic"
    /\ attempted = <<CLASSIC_RAG>>
    /\ result.answer = "classic"
    /\ result.strategy_used = CLASSIC_RAG

\* the cache holds, under the query of the current request, a result that
\* an earlier request (a warming lookup or a query) has stored
StoredEarlier ==
    /\ CacheHit(cache, req.metadata.original_query)
    /\ CacheGet(cache, req.metadata.original_query).query_id < req.query_id

\* an unforced query of a caching front-end that finds its query stored
\* returns the stored result marked cached (unless the lookup itself raised)
WarmedQueryHits ==
    (Returned /\ cache_enabled /\ req.force_strategy = NONE /\ StoredEarlier
        /\ result.error # "cache_error") =>
        /\ result.cached
        /\ result = cached_result(CacheGet(cache, req.metadata.original_query))

\* entries stay in the cache, and a lookup that hits writes nothing
RewarmingIdempotent ==
    /\ DOMAIN cache \subseteq DOMAIN cache'
    /\ (pc = "check_cache" /\ CacheHit(cache, req.metadata.original_query)) =>
           /\ cache' = cache
           /\ pc' = "done"
           /\ result'.cached \/ result'.error = "cache_error"

\* C17: once a query has been stored by warming or by a successful query
\* with caching enabled, every later unforced query for it returns
\* cached = true (this cache neither expires nor evicts), and warming again
\* with the same queries leaves the cache unchanged.
C17_WarmedQueriesHit ==
    /\ []WarmedQueryHits
    /\ [][RewarmingIdempotent]_vars

C17_Witness ==
    /\ Returned
    /\ cache_enabled
    /\ req.force_strategy = NONE
    /\ StoredEarlier
    /\ result.cached
    /\ result.answer = "classic"

\* the last operation was a get() of a key whose latest set() is still
\* within its TTL
FreshGet ==
    /\ l1_call.op = "get"
    /\ l1_call.key \in DOMAIN l1_sets
    /\ l1_call.at <= l1_sets[l1_call.key].at + l1_ttl

\* the get() returned the value of the latest set() of its key
ReturnedLatest ==
    /\ l1_call.hit
    /\ l1_call.value = l1_sets[l1_call.key].value

\* C19 as stated: in L1, after set(k, v) every get(k) made before the
\* entry's TTL expires returns v, whatever other L1 operations came between.
C19_FreshGetHits ==
    FreshGet => ReturnedLatest

\* C19 amended: after set(k, v), a get(k) made before the entry's TTL expires
\* returns v provided that, since that set, the entry was not evicted by an
\* insert at capacity, the tier was not cleared, and k was not set again.
C19_FreshResidentGetHits ==
    (FreshGet /\ ~l1_sets[l1_call.key].dropped) => ReturnedLatest

C19_Witness ==
    /\ FreshGet
    /\ ~l1_sets[l1_call.key].dropped
    /\ l1_call.at = l1_sets[l1_call.key].at + l1_ttl
    /\ Len(l1_entries) = 2
    /\ l1_call.hit
    /\ l1_call.value = "Other result"

\* C20: L1 matches keys exactly: a get() hits only a key that was itself
\* set, and returns what was set under that very key; a set() under a key
\* that differs in case, whitespace or punctuation never makes it hit.
C20_ExactKeyMatch ==
    (l1_call.op = "get" /\ l1_call.hit) =>
        /\ l1_call.key \in DOMAIN l1_sets
        /\ l1_call.value = l1_sets[l1_call.key].value
        /\ l1_resident(l1_entries, l1_call.key)

C20_Witness ==
    /\ l1_call.op = "get"
    /\ l1_call.key = "What is python?"
    /\ ~l1_call.hit
    /\ l1_call.key \notin DOMAIN l1_sets
    /\ l1_resident(l1_entries, "What is Python?")
    /\ ~expired(l1_entry(l1_entries, "What is Python?"), now)

\* the last operation was a get() of a key that has been set, whose entry
\* has not been evicted or cleared since
GetOfStoredKey ==
    /\ l1_call.op = "get"
    /\ l1_call.key \in DOMAIN l1_sets
    /\ ~l1_sets[l1_call.key].dropped

ResidentKeys == [i \in 1..Len(l1_entries) |-> l1_entries[i].key]

\* the last n elements of a sequence
LastOf(seq, n) == SubSeq(seq, Len(seq) - n + 1, Len(seq))

\* C22: L1 never holds more than max_size entries, and the entries are
\* always the max_size most recently used keys (a set and a get both being a
\* use), so an insert at full capacity evicts exactly the least recently
\* used entry.
C22_LruWithinCapacity ==
    /\ Len(l1_entries) <= l1_max_size
    /\ ResidentKeys =
           LastOf(l1_uses, IF Len(l1_uses) < l1_max_size THEN Len(l1_uses)
                           ELSE l1_max_size)

C22_Witness ==
    /\ l1_max_size = 3
    /\ l1_uses = <<"K2", "K3", "K1", "K4">>
    /\ l1_sets["K1"].value = "Result"
    /\ l1_sets["K4"].value = "Other result"
    /\ l1_call.op = "set" /\ l1_call.key = "K4"
    /\ ResidentKeys = <<"K3", "K1", "K4">>

\* the stored, non-expired entries whose cosine similarity to the embedding
\* of the looked-up query is at or above the threshold
SimilarStored ==
    {q \in DOMAIN l2_entries :
        /\ now <= l2_entries[q].created_at + l2_ttl
        /\ cosine_at_least(l2_entries[q].embedding, Embedding(l2_call.query),
                           similarity_threshold)}

\* C23: L2 get_similar hits if and only if some stored, non-expired entry
\* has cosine similarity to the query embedding at or above
\* similarity_threshold, and the entry it returns is one of maximum
\* similarity among the stored entries.
C23_SimilarHitIsBest ==
    l2_call.op = "get_similar" =>
        /\ l2_call.hit <=> SimilarStored # {}
        /\ l2_call.hit =>
               /\ l2_call.found \in SimilarStored
               /\ \A o \in DOMAIN l2_entries :
                      now <= l2_entries[o].created_at + l2_ttl =>
                          at_least_as_similar(l2_entries[l2_call.found].embedding,
                                              l2_entries[o].embedding,
                                              Embedding(l2_call.query))

C23_Witness ==
    /\ l2_call.op = "get_similar"
    /\ l2_call.query = "What's Python?"
    /\ l2_call.hit
    /\ l2_call.found = "What is Python?"
    /\ SimilarStored = {"What is Python?", "Python basics"}
    /\ DOMAIN l2_entries = {"What is Python?", "Python basics", "What is Java?"}

\* C24: L3 save_path(q, path, is_better) stores path when the slot of q is
\* empty; on an occupied slot it replaces the stored path if is_better is
\* true and leaves it unchanged if is_better is false; get_path(q) returns
\* the path currently stored, or a miss when there is none.
C24_SavePathRespectsIsBetter ==
    /\ l3_call.op = "save_path" =>
           /\ l3_call.query \in DOMAIN l3_paths
           /\ l3_paths[l3_call.query] =
                  IF l3_call.before = <<>> \/ l3_call.is_better
                  THEN l3_call.path
                  ELSE l3_call.before
    /\ l3_call.op = "get_path" =>
           /\ l3_call.hit <=> l3_call.query \in DOMAIN l3_paths
           /\ l3_call.hit => l3_call.path = l3_paths[l3_call.query]

C24_Witness ==
    /\ l3_call.op = "save_path"
    /\ l3_call.before = <<"research", "analysis", "synthesis">>
    /\ l3_call.path = <<"research", "synthesis">>
    /\ ~l3_call.is_better
    /\ l3_paths[l3_call.query] = <<"research", "analysis", "synthesis">>

\* C25: after invalidate_pattern(p), until the next write, no tier holds an
\* entry whose query matches p; the entries whose query does not match p
\* (and, in L2, whose embedding is not near that of an invalidated entry) are
\* in place as they were; and after invalidate_pattern("*") the tiers are
\* empty and every lookup misses.
C25_InvalidationFrame ==
    m_call.op = "invalidate_pattern" =>
        LET p == m_call.pattern
            before == m_call.before
        IN /\ \A e \in Range(l1_entries) : ~matches(p, e.key)
           /\ \A q \in DOMAIN l2_entries : ~matches(p, q)
           /\ \A q \in DOMAIN l3_paths : ~matches(p, q)
           /\ \A e \in Range(before.l1) :
                  ~matches(p, e.key) => e \in Range(l1_entries)
           /\ \A q \in DOMAIN before.l2 :
                  (~matches(p, q) /\ ~l2_echo(before.l2, p, q)) =>
                      /\ q \in DOMAIN l2_entries
                      /\ l2_entries[q] = before.l2[q]
           /\ \A q \in DOMAIN before.l3 :
                  ~matches(p, q) =>
                      /\ q \in DOMAIN l3_paths
                      /\ l3_paths[q] = before.l3[q]
           /\ p = <<"*">> =>
                  /\ l1_entries = <<>>
                  /\ DOMAIN l2_entries = {}
                  /\ DOMAIN l3_paths = {}
                  /\ ~l1_call.hit /\ ~l2_call.hit /\ ~l3_call.hit

C25_Witness ==
    /\ m_call.op = "invalidate_pattern"
    /\ m_call.pattern = <<"T", "e", "s", "t", "*">>
    /\ DOMAIN m_call.before.l2 = ManagerQueries
    /\ DOMAIN m_call.before.l3 = ManagerQueries
    /\ {e.key : e \in Range(l1_entries)} = {"Other query", "Unrelated"}
    /\ DOMAIN l2_entries = {"Unrelated"}
    /\ DOMAIN l3_paths = {"Other query", "Unrelated"}
    /\ l1_call.op = "get" /\ l1_call.key = "Test query" /\ ~l1_call.hit

\* C26: a failure of the cache, on lookup or on write, never fails the
\* request: no request ends with the cache's exception as its error.
C26_CacheFailureNotFatal ==
    Returned => result.error # "cache_error"

\* C27: the complexity in QueryMetadata, which the router uses, is the one
\* the Classifier computes; an unforced query that matches a complex pattern
\* has complexity complex or multi_hop and runs the agentic strategy.
C27_ClassifierComplexityRoutes ==
    pc # "idle" =>
        /\ req.metadata.complexity = classify(req.metadata).complexity
        /\ (req.force_strategy = NONE /\ complex_pattern(req.query)
               /\ ~simple_pattern(req.query)) =>
               /\ req.metadata.complexity \in {COMPLEX, MULTI_HOP}
               /\ attempted # <<>> => attempted = <<AGENTIC_RAG>>

\* C28: for every analysed query and every configured pair of thresholds the
\* score lies in [0, 1], a score below complexity_threshold_simple is labelled
\* simple and a score of at least complexity_threshold_complex is labelled
\* complex or multi_hop.
C28_ThresholdsDecideComplexity ==
    call.op = "analyze_query" =>
        /\ call.metadata.complexity_score \in 0..10000
        /\ call.metadata.complexity_score < call.simple_threshold =>
               call.metadata.complexity = SIMPLE
        /\ call.metadata.complexity_score >= call.complex_threshold =>
               call.metadata.complexity \in {COMPLEX, MULTI_HOP}

\* C29: every QueryResult has confidence_score and relevance_score in [0, 1]
\* whatever values the classic pipeline or the orchestrator report.
C29_ScoresWithinUnitInterval ==
    call.op \in {"execute_classic", "execute_agentic"} =>
        /\ call.result.confidence_score \in 0..10000
        /\ call.relevance_score \in 0..10000

\* C30: the empty query is labelled simple by the analyzer and by the
\* classifier and routed to classic; it runs through query() like any other
\* text, ending with the classic answer (or its cached copy) unless a pipeline
\* or the cache raised.
C30_EmptyQueryIsSimpleClassic ==
    (pc # "idle" /\ req.query = "") =>
        /\ req.metadata.complexity = SIMPLE
        /\ classify(req.metadata).complexity = SIMPLE
        /\ decision # NoDecision => decision.strategy = CLASSIC_RAG
        /\ attempted # <<>> => attempted = <<CLASSIC_RAG>>
        /\ (pc = "done" /\ raised = <<>> /\ result.error # "cache_error") =>
               /\ result.error = NONE
               /\ result.answer = "classic"

C30_Witness ==
    /\ pc = "done"
    /\ req.query = ""
    /\ decision.strategy = CLASSIC_RAG
    /\ attempted = <<CLASSIC_RAG>>
    /\ result.error = NONE
    /\ result.answer = "classic"

\* C31: a text matching a simple pattern is classified simple with confidence
\* 0.85 whether or not it matches a complex pattern; otherwise a text matching
\* a complex pattern is multi_hop when at least 2 multi-hop keywords are in it
\* and complex when fewer are, with confidence 0.75.
C31_PatternClassification ==
    call.op = "classify" =>
        /\ simple_pattern(call.query) =>
               call.classification = [complexity |-> SIMPLE, confidence |-> 8500]
        /\ (~simple_pattern(call.query) /\ complex_pattern(call.query)) =>
               /\ call.classification.confidence = 7500
               /\ call.classification.complexity =
                      IF multi_hop_count(call.query) >= 2 THEN MULTI_HOP ELSE COMPLEX

C31_Witness ==
    /\ call.op = "classify"
    /\ simple_pattern(call.query)
    /\ complex_pattern(call.query)
    /\ call.classification.complexity = SIMPLE

\* a text that matches no pattern and has nothing the adjustments react to
PlainText(q) ==
    /\ ~simple_pattern(q)
    /\ ~complex_pattern(q)
    /\ question_marks(q) <= 1
    /\ ~has_enumeration(q)

\* C32: a text matching no pattern is classified by its number of words n,
\* before adjustments: n < 10 simple 0.7, 10 <= n < 30 moderate 0.6,
\* 30 <= n < 50 complex 0.6, n >= 50 multi_hop 0.7.
C32_WordCountRanges ==
    (call.op = "classify" /\ PlainText(call.query)) =>
        LET n == word_count(call.query)
        IN call.classification =
               IF n < 10 THEN [complexity |-> SIMPLE, confidence |-> 7000]
               ELSE IF n < 30 THEN [complexity |-> MODERATE, confidence |-> 6000]
               ELSE IF n < 50 THEN [complexity |-> COMPLEX, confidence |-> 6000]
               ELSE [complexity |-> MULTI_HOP, confidence |-> 7000]

C32_Witness ==
    /\ call.op = "classify"
    /\ PlainText(call.query)
    /\ word_count(call.query) = 30
    /\ call.classification = [complexity |-> COMPLEX, confidence |-> 6000]

\* C33: the adjustments reach every heuristic classification, one made by a
\* pattern match included: more than one question mark gives multi_hop, and a
\* text with an enumerated list is not left simple.
C33_AdjustmentsAlwaysApply ==
    call.op = "classify" =>
        /\ question_marks(call.query) > 1 =>
               call.classification.complexity = MULTI_HOP
        /\ has_enumeration(call.query) =>
               call.classification.complexity # SIMPLE

\* C34: both estimates carry the complexity multiplier: estimated_time_ms is
\* base_time x multiplier and estimated_cost_usd is
\* base_cost x multiplier x (1 + len(query) / 1000).  (Time is compared in
\* half ms, cost in 0.0000005 USD, the multiplier being in halves.)
C34_EstimatesScaleWithComplexity ==
    call.op = "estimate" =>
        /\ 2 * call.estimated_time_ms =
               base_time(call.strategy) * complexity_multiplier(call.complexity)
        /\ 2 * call.estimated_cost_usd =
               base_cost(call.strategy) * complexity_multiplier(call.complexity)
                   * (1000 + call.query_length)

\* the entry that stands for subtask i: its refined result if it has one,
\* its original result otherwise
standing(res, i) ==
    LET of_i == SelectSeq(res, LAMBDA e : e.task = i)
    IN of_i[Len(of_i)]

\* the confidences of the subtasks, each subtask once
once_each(res) ==
    LET reporting == SelectSeq([i \in 1..Len(subtasks) |-> standing(res, i)],
                               with_confidence)
    IN [k \in 1..Len(reporting) |-> reporting[k].confidence.value]

\* C35: the final confidence is the arithmetic mean of the subtasks'
\* confidences, each subtask counted once with a refined result standing in
\* for the original, and 0.75 when no subtask reported one.  (Fractions are
\* compared by cross-multiplication.)
C35_MeanOverSubtasks ==
    a_pc = "done" =>
        LET c == once_each(results)
            claimed == IF c # <<>> THEN [sum |-> sum(c), count |-> Len(c)]
                       ELSE [sum |-> 7500, count |-> 1]
        IN final_result.confidence.sum * claimed.count
               = claimed.sum * final_result.confidence.count

\* every subtask before i has its result in res, and its refined result too
\* when the first one asked for refinement
finished_before(res, i) ==
    \A j \in 1..(i - 1) :
        /\ \E k \in 1..Len(res) : res[k].task = j /\ ~res[k].refined
        /\ \A k \in 1..Len(res) :
               (res[k].task = j /\ res[k].needs_refinement) =>
                   \E m \in 1..Len(res) : res[m].task = j /\ res[m].refined

\* C36: subtask i starts only when every subtask before it, refinement pass
\* included, has finished; the context it gets holds exactly the results of
\* those subtasks; synthesis starts only after the last subtask and its
\* refinement have finished.
C36_StrictlyLeftToRight ==
    /\ \A i \in 1..Len(contexts) :
           /\ finished_before(contexts[i], i)
           /\ contexts[i] = SelectSeq(results, LAMBDA e : e.task < i)
    /\ a_pc \in {"synthesize", "done"} =>
           /\ Len(contexts) = Len(subtasks)
           /\ finished_before(results, Len(subtasks) + 1)

C36_Witness ==
    /\ a_pc = "done"
    /\ Len(results) = 5
    /\ results[1].needs_refinement
    /\ Len(contexts[2]) = 2
    /\ Len(contexts[3]) = 3

\* a request that was answered from the cache is over, and neither the
\* router nor a pipeline has run for it
HitSkipsEverything ==
    (pc # "idle" /\ result.cached) =>
        /\ Returned
        /\ decision = NoDecision
        /\ attempted = <<>>
        /\ tasks = NoTasks

\* the step that answers from the cache leaves cache and metrics alone and
\* returns the stored result with cached set
HitStepFrame ==
    (pc = "check_cache" /\ result'.cached) =>
        /\ cache' = cache
        /\ metrics' = metrics
        /\ result' = [CacheGet(cache, req.metadata.original_query)
                          EXCEPT !.cached = TRUE]

\* C37: on a cache hit query() returns the stored result with cached set to
\* true, and nothing else changed: no routing, no pipeline, no cache write and
\* no metrics record for that request.
C37_CacheHitFrame ==
    /\ []HitSkipsEverything
    /\ [][HitStepFrame]_vars

C37_Witness ==
    /\ Returned
    /\ result.cached
    /\ result.answer = "agentic"
    /\ monitoring_enabled
    /\ metrics = 1
    /\ decision = NoDecision
    /\ CacheGet(cache, req.metadata.original_query).query_id < req.query_id

\* the cache holds a result of the current request
WroteCache ==
    \E k \in DOMAIN cache : cache[k].query_id = req.query_id

\* C38: a request that ends in an error has written nothing to the cache,
\* and no stored result is an error result.
C38_ErrorLeavesCacheAlone ==
    /\ (Returned /\ result.error # NONE) => ~WroteCache
    /\ \A k \in DOMAIN cache : cache[k].error = NONE

\* C39: a forced query never reads the cache, whatever it holds; when it
\* succeeds with caching enabled its result is what the cache then holds for
\* the text, and an unforced query answered from the cache gets what is
\* stored for its text.
C39_ForcedWritesUnread ==
    /\ req.force_strategy # NONE => (pc # "check_cache" /\ ~result.cached)
    /\ (Returned /\ req.force_strategy # NONE /\ cache_enabled
           /\ result.error = NONE) =>
           /\ CacheHit(cache, req.metadata.original_query)
           /\ CacheGet(cache, req.metadata.original_query) = result
    /\ (Returned /\ req.force_strategy = NONE /\ result.cached) =>
           result = cached_result(CacheGet(cache, req.metadata.original_query))

\* an unforced query for "what", which the router sends to classic, is served
\* the agentic result an earlier forced query stored
C39_Witness ==
    /\ Returned
    /\ req.force_strategy = NONE
    /\ req.query = "what"
    /\ result.cached
    /\ result.strategy_used = AGENTIC_RAG
    /\ result.query_id < req.query_id

\* C40: a hybrid execution in which both pipelines answered reports
\* strategy_used = hybrid whichever result it selected, and every other field
\* (answer, confidence_score, agents_used, execution_path, ...) is the
\* selected pipeline's.
C40_HybridRelabelsOnly ==
    call.op = "execute_hybrid" =>
        /\ call.result.strategy_used = HYBRID
        /\ \E selected \in {call.classic, call.agentic} :
               /\ call.result = [selected EXCEPT !.strategy_used = HYBRID]
               /\ call.result.answer = selected.answer
               /\ call.result.confidence_score = selected.confidence_score
               /\ call.result.agents_used = selected.agents_used
               /\ call.result.execution_path = selected.execution_path

C40_Witness ==
    /\ call.op = "execute_hybrid"
    /\ call.agentic.strategy_used = AGENTIC_RAG
    /\ call.result.strategy_used = HYBRID
    /\ call.result.answer = "agentic"
    /\ call.result.agents_used = <<"agent">>
    /\ call.result.execution_path = <<"orchestrate">>

====
